---- MODULE Spec2Model ----
(***************************************************************************)
(* show_color.py: a reverse table RGB -> colour name, the lookup           *)
(* get_color_name_from_rgb, and the PyMOL command show_color               *)
(* (label_colors_with_names) that labels every atom with its colour name.  *)
(*                                                                         *)
(* Floats are modelled by their exact value in units of 10^-(Ndigits+1)    *)
(* (one decimal place finer than the precision round() keeps), so that     *)
(* rounding, drift around a key and ties are all representable.            *)
(***************************************************************************)
EXTENDS Integers, Sequences, FiniteSets, TLC

VARIABLES
  combined_reverse_colors,  \* the merged dict of line 264
  rgb,                      \* argument of the last direct lookup
  color_name,               \* its result ("" = not called yet)
  rounded_name,             \* result of the lookup of the pre-rounded rgb
  stored_atom_list,         \* pymol.stored.atom_list
  scene,                    \* host: the loaded atoms, [model, index, color]
  labels,                   \* host: label text of each atom of the scene
  calls,                    \* host primitives called by the last invocation
  outcome,                  \* "none" | "ok" | "error" of the last invocation
  printed,                  \* lines printed by the last invocation
  runs                      \* invocations since the scene last changed

vars == <<combined_reverse_colors, rgb, color_name, rounded_name,
          stored_atom_list, scene, labels, calls, outcome, printed, runs>>

(* ------------------------------ bounds --------------------------------- *)
MaxAtoms == 2
MaxRuns  == 2
MaxDrift == 5

(* ------------------------------ floats --------------------------------- *)
Ndigits == 3

\* number of model units in 1.0
Fine == 10 * 10^Ndigits

\* a float literal written with three decimals, given in thousandths
Milli(t) == t * (Fine \div 1000)

Abs(c) == IF c < 0 THEN 0 - c ELSE c

\* round(c, 3): nearest multiple of 10^-3, an exact tie goes to the even one
round(c) ==
  LET a == Abs(c)
      q == a \div 10
      r == a % 10
      n == IF r < 5 THEN q
           ELSE IF r > 5 THEN q + 1
           ELSE IF q % 2 = 0 THEN q ELSE q + 1
  IN  IF c < 0 THEN 0 - 10 * n ELSE 10 * n

\* tuple(round(c, 3) for c in rgb)
round3(t) == <<round(t[1]), round(t[2]), round(t[3])>>

(* ------------------------------ tables --------------------------------- *)
\* one "key: name" entry of a dict display, channels in thousandths
E(r, g, b, n) == [key |-> <<Milli(r), Milli(g), Milli(b)>>, name |-> n]

reverse_simple_named_colors_items ==
  << E(500, 1000, 1000, "aquamarine"),
     E(0, 0, 0, "black"),
     E(0, 0, 1000, "blue"),
     E(850, 850, 1000, "bluewhite"),
     E(100, 100, 1000, "br0"),
     E(200, 100, 900, "br1"),
     E(300, 100, 800, "br2"),
     E(400, 100, 700, "br3"),
     E(500, 100, 600, "br4"),
     E(600, 100, 500, "br5"),
     E(700, 100, 400, "br6"),
     E(800, 100, 300, "br7"),
     E(900, 100, 200, "br8"),
     E(1000, 100, 100, "br9"),
     E(1000, 700, 200, "brightorange"),
     E(650, 320, 170, "brown"),
     E(200, 1000, 200, "carbon"),
     E(500, 1000, 0, "chartreuse"),
     E(555, 222, 111, "chocolate"),
     E(0, 1000, 1000, "cyan"),
     E(730, 550, 520, "darksalmon"),
     E(1000, 1000, 0, "dash"),
     E(250, 250, 650, "deepblue"),
     E(600, 600, 100, "deepolive"),
     E(600, 100, 600, "deeppurple"),
     E(1000, 420, 420, "deepsalmon"),
     E(100, 600, 600, "deepteal"),
     E(100, 100, 600, "density"),
     E(700, 500, 500, "dirtyviolet"),
     E(698, 130, 130, "firebrick"),
     E(200, 600, 200, "forest"),
     E(500, 500, 500, "gray"),
     E(0, 1000, 0, "green"),
     E(250, 1000, 750, "greencyan"),
     E(1000, 0, 500, "hotpink"),
     E(900, 900, 900, "hydrogen"),
     E(750, 750, 1000, "lightblue"),
     E(1000, 200, 800, "lightmagenta"),
     E(1000, 800, 500, "lightorange"),
     E(1000, 750, 870, "lightpink"),
     E(400, 700, 700, "lightteal"),
     E(500, 1000, 500, "lime"),
     E(0, 1000, 500, "limegreen"),
     E(750, 1000, 250, "limon"),
     E(1000, 0, 1000, "magenta"),
     E(0, 500, 1000, "marine"),
     E(200, 200, 1000, "nitrogen"),
     E(770, 700, 0, "olive"),
     E(1000, 500, 0, "orange"),
     E(1000, 300, 300, "oxygen"),
     E(800, 1000, 1000, "palecyan"),
     E(650, 900, 650, "palegreen"),
     E(1000, 1000, 500, "paleyellow"),
     E(1000, 650, 850, "pink"),
     E(750, 0, 750, "purple"),
     E(500, 0, 1000, "purpleblue"),
     E(700, 300, 400, "raspberry"),
     E(1000, 0, 0, "red"),
     E(600, 200, 200, "ruby"),
     E(1000, 600, 600, "salmon"),
     E(720, 550, 300, "sand"),
     E(200, 500, 800, "skyblue"),
     E(500, 500, 1000, "slate"),
     E(550, 700, 400, "smudge"),
     E(520, 750, 0, "splitpea"),
     E(900, 775, 250, "sulfur"),
     E(0, 750, 750, "teal"),
     E(300, 300, 1000, "tv_blue"),
     E(200, 1000, 200, "tv_green"),
     E(1000, 550, 150, "tv_orange"),
     E(1000, 200, 200, "tv_red"),
     E(1000, 1000, 200, "tv_yellow"),
     E(1000, 500, 1000, "violet"),
     E(550, 250, 600, "violetpurple"),
     E(850, 200, 500, "warmpink"),
     E(990, 820, 650, "wheat"),
     E(1000, 1000, 1000, "white"),
     E(1000, 1000, 0, "yellow"),
     E(1000, 870, 370, "yelloworange") >>

reverse_chemical_element_colors_items ==
  << E(439, 671, 980, "actinium"),
     E(749, 651, 651, "aluminum"),
     E(329, 361, 949, "americium"),
     E(620, 388, 710, "antimony"),
     E(502, 820, 890, "argon"),
     E(741, 502, 890, "arsenic"),
     E(459, 310, 271, "astatine"),
     E(0, 788, 0, "barium"),
     E(541, 310, 890, "berkelium"),
     E(761, 1000, 0, "beryllium"),
     E(620, 310, 710, "bismuth"),
     E(878, 0, 220, "bohrium"),
     E(1000, 710, 710, "boron"),
     E(651, 161, 161, "bromine"),
     E(1000, 851, 561, "cadmium"),
     E(239, 1000, 0, "calcium"),
     E(631, 212, 831, "californium"),
     E(200, 1000, 200, "carbon"),
     E(1000, 1000, 780, "cerium"),
     E(341, 90, 561, "cesium"),
     E(122, 941, 122, "chlorine"),
     E(541, 600, 780, "chromium"),
     E(941, 565, 627, "cobalt"),
     E(784, 502, 200, "copper"),
     E(471, 361, 890, "curium"),
     E(900, 900, 900, "deuterium"),
     E(820, 0, 310, "dubnium"),
     E(122, 1000, 780, "dysprosium"),
     E(702, 122, 831, "einsteinium"),
     E(0, 902, 459, "erbium"),
     E(380, 1000, 780, "europium"),
     E(702, 122, 729, "fermium"),
     E(702, 1000, 1000, "fluorine"),
     E(259, 0, 400, "francium"),
     E(271, 1000, 780, "gadolinium"),
     E(761, 561, 561, "gallium"),
     E(400, 561, 561, "germanium"),
     E(1000, 820, 137, "gold"),
     E(302, 761, 1000, "hafnium"),
     E(902, 0, 180, "hassium"),
     E(851, 1000, 1000, "helium"),
     E(0, 1000, 612, "holmium"),
     E(900, 900, 900, "hydrogen"),
     E(651, 459, 451, "indium"),
     E(580, 0, 580, "iodine"),
     E(90, 329, 529, "iridium"),
     E(878, 400, 200, "iron"),
     E(361, 722, 820, "krypton"),
     E(439, 831, 1000, "lanthanum"),
     E(780, 0, 400, "lawrencium"),
     E(341, 349, 380, "lead"),
     E(800, 502, 1000, "lithium"),
     E(0, 671, 141, "lutetium"),
     E(541, 1000, 0, "magnesium"),
     E(612, 478, 780, "manganese"),
     E(922, 0, 149, "meitnerium"),
     E(702, 51, 651, "mendelevium"),
     E(722, 722, 816, "mercury"),
     E(329, 710, 710, "molybdenum"),
     E(780, 1000, 780, "neodymium"),
     E(702, 890, 961, "neon"),
     E(0, 502, 1000, "neptunium"),
     E(314, 816, 314, "nickel"),
     E(451, 761, 788, "niobium"),
     E(200, 200, 1000, "nitrogen"),
     E(741, 51, 529, "nobelium"),
     E(149, 400, 588, "osmium"),
     E(1000, 300, 300, "oxygen"),
     E(0, 412, 522, "palladium"),
     E(1000, 502, 0, "phosphorus"),
     E(816, 816, 878, "platinum"),
     E(0, 420, 1000, "plutonium"),
     E(671, 361, 0, "polonium"),
     E(561, 251, 831, "potassium"),
     E(851, 1000, 780, "praseodymium"),
     E(639, 1000, 780, "promethium"),
     E(0, 631, 1000, "protactinium"),
     E(0, 490, 0, "radium"),
     E(259, 510, 588, "radon"),
     E(149, 490, 671, "rhenium"),
     E(39, 490, 549, "rhodium"),
     E(439, 180, 690, "rubidium"),
     E(141, 561, 561, "ruthenium"),
     E(800, 0, 349, "rutherfordium"),
     E(561, 1000, 780, "samarium"),
     E(902, 902, 902, "scandium"),
     E(851, 0, 271, "seaborgium"),
     E(1000, 631, 0, "selenium"),
     E(941, 784, 627, "silicon"),
     E(753, 753, 753, "silver"),
     E(671, 361, 949, "sodium"),
     E(0, 1000, 0, "strontium"),
     E(900, 775, 250, "sulfur"),
     E(302, 651, 1000, "tantalum"),
     E(231, 620, 620, "technetium"),
     E(831, 478, 0, "tellurium"),
     E(188, 1000, 780, "terbium"),
     E(651, 329, 302, "thallium"),
     E(0, 729, 1000, "thorium"),
     E(0, 831, 322, "thulium"),
     E(400, 502, 502, "tin"),
     E(749, 761, 780, "titanium"),
     E(129, 580, 839, "tungsten"),
     E(0, 561, 1000, "uranium"),
     E(651, 651, 671, "vanadium"),
     E(259, 620, 690, "xenon"),
     E(0, 749, 220, "ytterbium"),
     E(580, 1000, 1000, "yttrium"),
     E(490, 502, 690, "zinc"),
     E(580, 878, 878, "zirconium") >>

\* a dict is the sequence of its (key, name) items in insertion order
EmptyDict == <<>>

Keys(d) == {d[i].key : i \in DOMAIN d}

\* k in d
Has(d, k) == \E i \in DOMAIN d : d[i].key = k

\* the position of key k in d
Slot(d, k) == CHOOSE i \in DOMAIN d : d[i].key = k

\* d[k] = v
DictSetFirstWins(d, k, v) ==
  IF Has(d, k) THEN d ELSE Append(d, [key |-> k, name |-> v])

DictSet(d, k, v) ==
  IF Has(d, k) THEN [d EXCEPT ![Slot(d, k)].name = v]
  ELSE Append(d, [key |-> k, name |-> v])

\* items[lo..hi] stored into d, left to right
RECURSIVE Update(_, _, _, _)
Update(d, items, lo, hi) ==
  IF lo > hi THEN d
  ELSE IF lo = hi THEN DictSet(d, items[lo].key, items[lo].name)
  ELSE LET mid  == (lo + hi) \div 2
           left == Update(d, items, lo, mid)
       IN  IF Len(left) > 0 THEN Update(left, items, mid + 1, hi) ELSE left

Reverse(items) == [i \in 1..Len(items) |-> items[Len(items) + 1 - i]]

\* a dict display {k1: v1, ..., kn: vn}
DictDisplayRightToLeft(items) ==
  Update(EmptyDict, Reverse(items), 1, Len(items))

DictDisplay(items) == Update(EmptyDict, items, 1, Len(items))

reverse_simple_named_colors == DictDisplay(reverse_simple_named_colors_items)

reverse_chemical_element_colors ==
  DictDisplay(reverse_chemical_element_colors_items)

\* {**a, **b}
MergeFirstWins(a, b) == Update(b, a, 1, Len(a))

Merge(a, b) == Update(a, b, 1, Len(b))

(* ------------------------------ lookup --------------------------------- *)
\* dict.get(key, default)
DictGetLower(d, k) == IF Has(d, k) THEN d[Slot(d, k)].name ELSE "unknown"

DictGet(d, k) == IF Has(d, k) THEN d[Slot(d, k)].name ELSE "Unknown"

\* the dict after d.get(key, default): get never stores the default
DictAfterSetdefault(d, k) == DictSet(d, k, DictGet(d, k))

DictAfterGet(d, k) == d

\* the key looked up for an argument
LookupKeyRaw(t) == t

LookupKey(t) == round3(t)

\* get_color_name_from_rgb(rgb), reading the dict d
get_color_name_from_rgb(d, t) == DictGet(d, LookupKey(t))

(* ------------------------------- host ---------------------------------- *)
Models == {"1abc", "2xyz"}

\* the host's colour table: colour index -> RGB, as cmd.get_color_tuple
\* reports it (1: a key of both tables, with float drift; 2: no key)
HostColors ==
  << <<Milli(200) + 4, Milli(1000) - 4, Milli(200)>>,
     <<Milli(123), Milli(456), Milli(789)>> >>

get_color_tuple(color) == HostColors[color]

\* cmd.iterate("all", "stored.atom_list.append([model, index, color])"),
\* stopped after n atoms when it fails
iterate(list, n) == list \o SubSeq(scene, 1, n)

\* f"model {model} and index {resi}"
SelectionByColor(a) == [model |-> a.model, index |-> a.color]

Selection(a) == [model |-> a.model, index |-> a.index]

\* f"'{color_name}'"
Quote(n) == "'" \o n \o "'"

\* the host evaluates the label expression, a quoted string literal
Eval(text) == SubSeq(text, 2, Len(text) - 1)

\* cmd.label(selection, expression)
label(labs, sel, text) ==
  [i \in DOMAIN labs |->
     IF scene[i].model = sel.model /\ scene[i].index = sel.index
     THEN Eval(text) ELSE labs[i]]

Call(op, a, text, ok) ==
  [op |-> op, model |-> a.model, index |-> a.index, color |-> a.color,
   text |-> text, ok |-> ok]

NoAtom == [model |-> "", index |-> 0, color |-> 0]

NoFailure == [op |-> "none", at |-> 0]

\* where a host primitive may fail during one invocation
FailurePoints ==
  {NoFailure}
  \cup {[op |-> "iterate", at |-> n] : n \in 0..Len(scene)}
  \cup {[op |-> o, at |-> i] : o \in {"get_color_tuple", "label"},
                               i \in 1..Len(scene)}

(* ------------------------ label_colors_with_names ---------------------- *)
\* stored.atom_list = []
KeepAtomList(old) == old

ResetAtomList(old) == <<>>

\* stored.atom_list when the function is left: nothing clears it
ClearAtomListAtExit(list) == <<>>

AtomListAtExit(list) == list

\* print(...) is the last statement: an exception skips it
PrintAlways(raised) == <<"Residues labeled with their color names.">>

PrintAtEnd(raised) ==
  IF raised THEN <<>> ELSE <<"Residues labeled with their color names.">>

\* the for loop from element i on; st = [labels, calls, table, raised]
RECURSIVE ForLoop(_, _, _, _)
ForLoop(list, i, st, fail) ==
  IF i > Len(list) THEN st
  ELSE
    LET a == list[i]
    IN  IF fail = [op |-> "get_color_tuple", at |-> i]
        THEN [st EXCEPT !.calls = Append(@, Call("get_color_tuple", a, "", FALSE)),
                        !.raised = TRUE]
        ELSE
          LET t     == get_color_tuple(a.color)
              name  == get_color_name_from_rgb(st.table, t)
              table == DictAfterGet(st.table, LookupKey(t))
              sel   == Selection(a)
              text  == Quote(name)
              cs    == Append(st.calls, Call("get_color_tuple", a, "", TRUE))
          IN  IF fail = [op |-> "label", at |-> i]
              THEN [st EXCEPT !.calls = Append(cs, Call("label", sel @@ [color |-> 0], text, FALSE)),
                              !.table = table,
                              !.raised = TRUE]
              ELSE ForLoop(list, i + 1,
                     [labels |-> label(st.labels, sel, text),
                      calls  |-> Append(cs, Call("label", sel @@ [color |-> 0], text, TRUE)),
                      table  |-> table,
                      raised |-> FALSE],
                     fail)

label_colors_with_names(fail) ==
  /\ runs < MaxRuns
  /\ fail \in FailurePoints
  /\ LET list0 == ResetAtomList(stored_atom_list)
     IN  IF fail.op = "iterate"
         THEN /\ stored_atom_list' = AtomListAtExit(iterate(list0, fail.at))
              /\ calls' = <<Call("iterate", NoAtom, "", FALSE)>>
              /\ outcome' = "error"
              /\ printed' = PrintAtEnd(TRUE)
              /\ UNCHANGED <<labels, combined_reverse_colors>>
         ELSE LET list == iterate(list0, Len(scene))
                  res  == ForLoop(list, 1,
                            [labels |-> labels,
                             calls  |-> <<Call("iterate", NoAtom, "", TRUE)>>,
                             table  |-> combined_reverse_colors,
                             raised |-> FALSE],
                            fail)
              IN  /\ stored_atom_list' = AtomListAtExit(list)
                  /\ labels' = res.labels
                  /\ calls' = res.calls
                  /\ combined_reverse_colors' = res.table
                  /\ outcome' = IF res.raised THEN "error" ELSE "ok"
                  /\ printed' = PrintAtEnd(res.raised)
  /\ runs' = runs + 1
  /\ UNCHANGED <<scene, rgb, color_name, rounded_name>>

\* the command registered by cmd.extend("show_color", ...)
show_color == \E fail \in FailurePoints : label_colors_with_names(fail)

(* --------------------------- direct lookups ---------------------------- *)
\* get_color_name_from_rgb(r) called from the host's Python prompt
Lookup(r) ==
  /\ rgb' = r
  /\ color_name' = get_color_name_from_rgb(combined_reverse_colors, r)
  /\ rounded_name' = ""
  /\ combined_reverse_colors' = DictAfterGet(combined_reverse_colors, LookupKey(r))
  /\ UNCHANGED <<stored_atom_list, scene, labels, calls, outcome, printed, runs>>

\* get_color_name_from_rgb(round3(rgb)) for the triple of the last lookup
LookupRounded ==
  /\ color_name # ""
  /\ rounded_name = ""
  /\ rounded_name' = get_color_name_from_rgb(combined_reverse_colors, round3(rgb))
  /\ combined_reverse_colors' =
       DictAfterGet(combined_reverse_colors, LookupKey(round3(rgb)))
  /\ UNCHANGED <<rgb, color_name, stored_atom_list, scene, labels, calls,
                 outcome, printed, runs>>

(* ------------------------- the host's scene ---------------------------- *)
AtomsOf(m) == {i \in DOMAIN scene : scene[i].model = m}

\* the user loads one more atom into model m, coloured c
HostLoad(m, c) ==
  /\ Len(scene) < MaxAtoms
  /\ scene' = Append(scene, [model |-> m, index |-> Cardinality(AtomsOf(m)) + 1,
                             color |-> c])
  /\ labels' = Append(labels, "")
  /\ runs' = 0
  /\ UNCHANGED <<combined_reverse_colors, rgb, color_name, rounded_name,
                 stored_atom_list, calls, outcome, printed>>

(* --------------------------- specifications ---------------------------- *)
\* arguments of direct lookups: a key with float drift, and no key
DirectQueries == {HostColors[c] : c \in DOMAIN HostColors}

Init ==
  /\ combined_reverse_colors =
       Merge(reverse_simple_named_colors, reverse_chemical_element_colors)
  /\ rgb = <<0, 0, 0>>
  /\ color_name = ""
  /\ rounded_name = ""
  /\ stored_atom_list = <<>>
  /\ scene = <<>>
  /\ labels = <<>>
  /\ calls = <<>>
  /\ outcome = "none"
  /\ printed = <<>>
  /\ runs = 0

Next ==
  \/ show_color
  \/ \E r \in DirectQueries : Lookup(r)
  \/ \E m \in Models, c \in DOMAIN HostColors : HostLoad(m, c)

Spec == Init /\ [][Next]_vars

(* ------------------ the lookup on its own (pure function) -------------- *)
AllItems ==
  reverse_simple_named_colors_items \o reverse_chemical_element_colors_items

Drifts == {0 - MaxDrift, 1 - MaxDrift, 0, MaxDrift - 1, MaxDrift}

\* the drift a on the first channel, a or none on the second, -a or none
\* on the third
DriftVectors ==
  UNION {{<<a, 0, 0>>, <<a, a, 0>>, <<a, 0, 0 - a>>, <<a, a, 0 - a>>} :
           a \in Drifts \ {0}}

Shift(k, d) == <<k[1] + d[1], k[2] + d[2], k[3] + d[3]>>

\* triples that are no key and near none, in and out of [0, 1]
FarInputs ==
  { <<Milli(123), Milli(456), Milli(789)>>,
    <<Milli(123) + 4, Milli(456) + 1, Milli(789) - 4>>,
    <<0 - Milli(1), 0, 0>>,
    <<Milli(1001), Milli(1000), Milli(1000)>>,
    <<Milli(2000), Milli(2000), Milli(2000)>> }

\* every key written in the source, exact and with drift, and the far inputs
QueryInputs ==
  {AllItems[i].key : i \in DOMAIN AllItems}
  \cup {Shift(AllItems[i].key, d) : i \in DOMAIN AllItems, d \in DriftVectors}
  \cup FarInputs

InitResolve ==
  /\ combined_reverse_colors =
       Merge(reverse_simple_named_colors, reverse_chemical_element_colors)
  /\ rgb \in QueryInputs
  /\ color_name = ""
  /\ rounded_name = ""
  /\ stored_atom_list = <<>>
  /\ scene = <<>>
  /\ labels = <<>>
  /\ calls = <<>>
  /\ outcome = "none"
  /\ printed = <<>>
  /\ runs = 0

Resolve == color_name = "" /\ Lookup(rgb)

NextResolve == Resolve \/ LookupRounded

SpecResolve == InitResolve /\ [][NextResolve]_vars

(* ------------------------------ claims --------------------------------- *)
Message == "Residues labeled with their color names."

Looked == color_name # ""

\* the last item written with key k, the simple table's items taken first
LastItem(k) ==
  LET hits == {i \in DOMAIN AllItems : AllItems[i].key = k}
  IN  AllItems[CHOOSE i \in hits : \A j \in hits : j <= i]

\* C1 as stated: for every entry written in either source table, a lookup of
\* a triple that rounds to the entry's key returns that entry's own name.
C1_EveryEntryGivesItsOwnName ==
  \A i \in DOMAIN AllItems :
    (Looked /\ round3(rgb) = AllItems[i].key) => color_name = AllItems[i].name

\* C1 amended: for every entry written in either source table, a lookup of
\* a triple that rounds to the entry's key returns the name of the last entry
\* written with that key, the simple table's entries counted before the
\* element table's.
C1_LastEntryOfKeyWins ==
  \A i \in DOMAIN AllItems :
    (Looked /\ round3(rgb) = AllItems[i].key)
      => color_name = LastItem(AllItems[i].key).name

C1_Witness ==
  /\ color_name = "yellow"
  /\ rgb # round3(rgb)
  /\ round3(rgb) = <<Milli(1000), Milli(1000), Milli(0)>>

\* C2: for every key present in both source tables the lookup returns the
\* element table's name for it.
C2_ElementTableWins ==
  \A k \in Keys(reverse_simple_named_colors)
             \cap Keys(reverse_chemical_element_colors) :
    (Looked /\ round3(rgb) = k)
      => color_name = DictGet(reverse_chemical_element_colors, k)

C2_Witness ==
  /\ color_name = "strontium"
  /\ round3(rgb) = <<Milli(0), Milli(1000), Milli(0)>>
  /\ DictGet(reverse_simple_named_colors, round3(rgb)) = "green"

\* C3: the lookup always returns a name, and returns exactly "Unknown" when
\* the rounded triple is a key of neither source table.
C3_UnknownWhenNoKey ==
  Looked =>
    /\ color_name \in {AllItems[i].name : i \in DOMAIN AllItems} \cup {"Unknown"}
    /\ (round3(rgb) \notin {AllItems[i].key : i \in DOMAIN AllItems})
         => color_name = "Unknown"

C3_Witness ==
  /\ color_name = "Unknown"
  /\ rgb = <<Milli(1001), Milli(1000), Milli(1000)>>

\* C4: the lookup of a triple and the lookup of its rounded form return the
\* same name.
C4_RoundingIdempotence ==
  (Looked /\ rounded_name # "") => rounded_name = color_name

C4_Witness ==
  /\ rounded_name = "firebrick"
  /\ color_name = "firebrick"
  /\ rgb # round3(rgb)

\* C8: the lookup of (0.9, 0.9, 0.9) returns "hydrogen".
C8_HydrogenScenario ==
  (Looked /\ rgb = <<Milli(900), Milli(900), Milli(900)>>)
    => color_name = "hydrogen"

C8_Witness ==
  /\ rgb = <<Milli(900), Milli(900), Milli(900)>>
  /\ color_name = "hydrogen"
  /\ \E i \in DOMAIN reverse_chemical_element_colors_items :
       /\ reverse_chemical_element_colors_items[i].key = rgb
       /\ reverse_chemical_element_colors_items[i].name = "deuterium"

LabelCalls == SelectSeq(calls, LAMBDA c : c.op = "label")

\* the scene is the one the last invocation ran on
Ran == outcome # "none" /\ runs >= 1

\* C5: after an invocation without a host failure on a scene of N atoms, N
\* label calls were issued, the i-th selecting atom i by its model and index
\* with the quoted name of atom i's colour, and every atom carries that name.
C5_OneLabelPerAtom ==
  (Ran /\ outcome = "ok") =>
    /\ Len(LabelCalls) = Len(scene)
    /\ \A i \in DOMAIN scene :
         LET name == get_color_name_from_rgb(combined_reverse_colors,
                                             get_color_tuple(scene[i].color))
         IN  /\ LabelCalls[i].model = scene[i].model
             /\ LabelCalls[i].index = scene[i].index
             /\ LabelCalls[i].text = Quote(name)
             /\ LabelCalls[i].ok
             /\ labels[i] = name

C5_Witness ==
  /\ Ran /\ outcome = "ok"
  /\ Len(scene) = 2
  /\ scene[1].model = scene[2].model
  /\ labels = <<"Unknown", "carbon">>

\* C6: an invocation ends either with every call succeeded, every listed
\* atom labelled and the confirmation printed once, or with a failed host
\* call that is the last call made and no confirmation printed.
C6_SuccessOrAbort ==
  outcome # "none" =>
    \/ /\ outcome = "ok"
       /\ printed = <<Message>>
       /\ \A i \in DOMAIN calls : calls[i].ok
       /\ Len(LabelCalls) = Len(stored_atom_list)
    \/ /\ outcome = "error"
       /\ printed = <<>>
       /\ calls # <<>>
       /\ ~calls[Len(calls)].ok
       /\ \A i \in 1..(Len(calls) - 1) : calls[i].ok

C6_Witness ==
  /\ Ran /\ outcome = "error"
  /\ Len(scene) = 2
  /\ Len(calls) = 3
  /\ calls[3].op = "label"
  /\ labels = <<"", "">>

\* C7 as stated: once an invocation has returned or aborted,
\* stored.atom_list holds none of the scene's atom descriptors.
C7_NothingKeptAfterPass ==
  outcome # "none" =>
    \A i \in DOMAIN stored_atom_list, j \in DOMAIN scene :
      stored_atom_list[i] # scene[j]

\* C7 amended: stored.atom_list is emptied only at the start of an
\* invocation; once an invocation whose scene iteration succeeded has
\* returned or aborted, stored.atom_list still holds the descriptor of every
\* atom of the scene it ran on.
C7_ListKeptAfterPass ==
  (Ran /\ calls[1].ok) => stored_atom_list = scene

C7_Witness ==
  /\ Ran /\ outcome = "error" /\ calls[1].ok
  /\ Len(stored_atom_list) = 2
  /\ stored_atom_list = scene

\* C9: an invocation that completes on the scene the previous completed
\* invocation ran on issues the same calls and leaves the same labels.
C9_SecondPassSameAsFirst ==
  [][(show_color /\ Ran /\ outcome = "ok" /\ outcome' = "ok")
       => (calls' = calls /\ labels' = labels)]_vars

C9_Witness ==
  /\ runs >= 2 /\ outcome = "ok"
  /\ Len(scene) = 2
  /\ Len(LabelCalls) = 2
  /\ labels = <<"carbon", "Unknown">>

\* C10: no lookup and no invocation changes the merged table.
C10_TableNeverChanges ==
  [][combined_reverse_colors' = combined_reverse_colors]_vars

C10_Witness ==
  /\ color_name = "Unknown"
  /\ Ran /\ outcome = "error" /\ Len(calls) >= 3
  /\ combined_reverse_colors =
       Merge(reverse_simple_named_colors, reverse_chemical_element_colors)

====
